---- MODULE Spec2Model ----
(***************************************************************************)
(* Package ecdh25519: curve25519 Diffie-Hellman key pairs and shared       *)
(* secrets (ecdh25519.go).                                                 *)
(*                                                                         *)
(* Keys are Go byte slices, modelled as sequences of bytes 0..255; a nil   *)
(* slice is the empty sequence (the code only ever takes len() of an       *)
(* argument, and every successful result has 32 bytes).                    *)
(*                                                                         *)
(* curve25519.X25519 is the RFC 7748 function: clamp the scalar, mask the  *)
(* top bit of the u-coordinate, run the Montgomery ladder over the 255     *)
(* scalar bits, reject an all-zero output.  It is computed here as the     *)
(* library computes it, but over the field of 2^8 - 5 elements instead of  *)
(* 2^255 - 19, on a Montgomery curve with the same shape as Curve25519:    *)
(* group order 8 * (a prime), exactly one point of order two.              *)
(***************************************************************************)
EXTENDS Integers, Sequences, FiniteSets, TLC

(***************************************************************************)
(* Bounds of the model.                                                    *)
(***************************************************************************)
\* randomness streams and test keys are numbered 0..MaxSeed
MaxSeed == 3
\* buffer lengths and stream lengths tried: 0 and 32-MaxSkew .. 32+MaxSkew
MaxSkew == 1

(***************************************************************************)
(* Constants of the package.                                               *)
(***************************************************************************)
PublicKeySize == 32
PrivateKeySize == 32

\* a nil slice
NilSlice == << >>

\* error values; NoErr is Go's nil error.  n carries the %d of the message.
Err(kind, n) == [kind |-> kind, n |-> n]
NoErr == Err("nil", 0)

(***************************************************************************)
(* Bit operations on bytes (Go's & and | on uint8).                        *)
(***************************************************************************)
\* bit k (0 = lowest) of a byte
Bit(a, k) == (a \div (2 ^ k)) % 2

BitAnd(a, b) ==
      Bit(a, 0) * Bit(b, 0)       + 2 * Bit(a, 1) * Bit(b, 1)
    + 4 * Bit(a, 2) * Bit(b, 2)   + 8 * Bit(a, 3) * Bit(b, 3)
    + 16 * Bit(a, 4) * Bit(b, 4)  + 32 * Bit(a, 5) * Bit(b, 5)
    + 64 * Bit(a, 6) * Bit(b, 6)  + 128 * Bit(a, 7) * Bit(b, 7)

\* a | b = a + b - (a & b)
BitOr(a, b) == a + b - BitAnd(a, b)

(***************************************************************************)
(* golang.org/x/crypto/curve25519, scaled to a one-byte field.             *)
(***************************************************************************)
\* the field prime (2^255 - 19 in the library)
FieldP == 2^8 - 5
\* (A - 2) / 4 of the curve v^2 = u^3 + A u^2 + u, A = 162 (121665 in the library)
A24 == (162 - 2) \div 4
\* number of scalar bits the ladder walks: bits 254 .. 0
ScalarBits == 8 * 32 - 1

\* curve25519.Basepoint: the u-coordinate of a generator of the prime-order
\* subgroup, little-endian (u = 9 in the library, u = 5 on this curve)
Basepoint == [i \in 1..32 |-> IF i = 1 THEN 5 ELSE 0]

\* little-endian encoding of a field element in 32 bytes (FieldP < 256)
EncodeU(u) == [i \in 1..32 |-> IF i = 1 THEN u ELSE 0]

\* 256^k mod FieldP, for k a power of two
RECURSIVE Radix(_)
Radix(k) == IF k = 1 THEN 256 % FieldP ELSE (Radix(k \div 2) * Radix(k \div 2)) % FieldP

\* the little-endian value mod FieldP of the cnt bytes of point from byte lo
\* on (cnt a power of two), the top bit of byte 32 masked
RECURSIVE DecodeFrom(_, _, _)
DecodeFrom(point, lo, cnt) ==
    IF cnt = 1
    THEN (IF lo = 32 THEN BitAnd(point[lo], 127) ELSE point[lo]) % FieldP
    ELSE LET h == cnt \div 2
         IN  (DecodeFrom(point, lo, h) + Radix(h) * DecodeFrom(point, lo + h, h)) % FieldP

\* little-endian decoding of a u-coordinate: the top bit of the last byte is
\* masked and the value is reduced mod FieldP
DecodeU(point) == DecodeFrom(point, 1, 32)

\* the scalar as the ladder uses it: e[0] &= 248; e[31] &= 127; e[31] |= 64
ClampScalar(scalar) ==
    [i \in 1..32 |->
        IF i = 1 THEN BitAnd(scalar[i], 248)
        ELSE IF i = 32 THEN BitOr(BitAnd(scalar[i], 127), 64)
        ELSE scalar[i]]

\* bit t (0 = lowest) of a little-endian scalar
ScalarBit(e, t) == Bit(e[(t \div 8) + 1], t % 8)

\* fe.Invert: z^(FieldP - 2), which is the inverse of z, and 0 for z = 0
Invert(z) ==
    IF z = 0 THEN 0 ELSE CHOOSE y \in 1..(FieldP - 1) : (z * y) % FieldP = 1

\* conditional swap of the two ladder points
CSwap(s, swap) ==
    IF swap = 1
    THEN [x2 |-> s.x3, z2 |-> s.z3, x3 |-> s.x2, z3 |-> s.z2]
    ELSE s

\* one ladder step for scalar bit kt (RFC 7748 section 5)
LadderStep(x1, s0, swapIn, kt) ==
    LET s  == CSwap(s0, (swapIn + kt) % 2)
        A  == (s.x2 + s.z2) % FieldP
        AA == (A * A) % FieldP
        B  == (s.x2 - s.z2) % FieldP
        BB == (B * B) % FieldP
        E  == (AA - BB) % FieldP
        C  == (s.x3 + s.z3) % FieldP
        D  == (s.x3 - s.z3) % FieldP
        DA == (D * A) % FieldP
        CB == (C * B) % FieldP
        S  == (DA + CB) % FieldP
        T  == (DA - CB) % FieldP
    IN  [x2 |-> (AA * BB) % FieldP,
         z2 |-> (E * ((AA + A24 * E) % FieldP)) % FieldP,
         x3 |-> (S * S) % FieldP,
         z3 |-> (x1 * ((T * T) % FieldP)) % FieldP]

\* the ladder state after scalar bit t, given the state before it; the state
\* carries the previous bit as swap
LadderBit(e, x1, s, t) ==
    LET kt == ScalarBit(e, t)
        r  == LadderStep(x1, s, s.swap, kt)
    IN  [x2 |-> r.x2, z2 |-> r.z2, x3 |-> r.x3, z3 |-> r.z3, swap |-> kt]

\* The value of the one element of a singleton set.  The ladder binds each
\* intermediate state as the element of a singleton, so that it is computed
\* once, before the steps that follow it.
The(S) == CHOOSE v \in S : TRUE

\* the ladder steps for the scalar bits hi, hi-1, .., lo in that order (the
\* loop for pos := 254; pos >= 0; pos--), written as the steps of the upper
\* half of the range followed by those of the lower half
RECURSIVE LadderBits(_, _, _, _, _)
LadderBits(e, x1, s, hi, lo) ==
    IF hi = lo THEN LadderBit(e, x1, s, hi)
    ELSE CHOOSE r \in {LadderBits(e, x1, n, (hi + lo) \div 2, lo) :
                         n \in {LadderBits(e, x1, s, hi, (hi + lo) \div 2 + 1)}} : TRUE

\* the whole ladder, then the final swap
Ladder(e, x1, s) ==
    The({CSwap(n, n.swap) : n \in {LadderBits(e, x1, s, ScalarBits - 1, 0)}})

\* curve25519.ScalarMult: the u-coordinate of scalar * point
ScalarMult(scalar, point) ==
    The({EncodeU((r.x2 * Invert(r.z2)) % FieldP) :
            r \in {Ladder(e, x1, [x2 |-> 1, z2 |-> 0, x3 |-> x1, z3 |-> 1, swap |-> 0]) :
                      e \in {ClampScalar(scalar)}, x1 \in {DecodeU(point)}}})

IsZero(out) == \A i \in 1..Len(out) : out[i] = 0

\* curve25519.X25519: ([]byte, error); nil bytes with every error.  The
\* all-zero output is rejected for every point, the base point included.  On
\* Curve25519 no clamped scalar is a multiple of the subgroup order, so the
\* base point never gives it; on this curve the scalars that are multiples of
\* 29 do, and deriving a public key from one of them fails.
X25519(scalar, point) ==
    IF Len(scalar) # 32
    THEN [val |-> NilSlice, err |-> Err("bad scalar length", Len(scalar))]
    ELSE IF Len(point) # 32
    THEN [val |-> NilSlice, err |-> Err("bad point length", Len(point))]
    ELSE LET out == ScalarMult(scalar, point)
         IN  IF IsZero(out)
             THEN [val |-> NilSlice, err |-> Err("low order point", 0)]
             ELSE [val |-> out, err |-> NoErr]

(***************************************************************************)
(* Inputs: randomness sources and caller-supplied keys.                    *)
(***************************************************************************)
\* byte i (from 1) of the stream numbered seed.  Seed 0 is all 255; the
\* others differ in every clamp bit of byte 1 and byte 32.
StreamByte(seed, i) == (255 + seed * (1 + 3 * (i - 1))) % 256

Seeds == 0..MaxSeed
Lens == {0} \cup ((PrivateKeySize - MaxSkew)..(PrivateKeySize + MaxSkew))

\* a caller-supplied key of any length
TestKey(seed, len) == [i \in 1..len |-> StreamByte(seed, i)]
TestKeys == {TestKey(s, l) : s \in Seeds, l \in Lens}

\* u-coordinates of order 2, 4 and 8 on the curve
LowOrderPoints == {EncodeU(0), EncodeU(1), EncodeU(148)}

\* an io.Reader: it hands out the bytes of stream seed, avail of them in all,
\* and then returns the error fail.  Unlimited: it never runs out.
Unlimited == 0 - 1
Reader(isNil, seed, avail, fail) ==
    [isNil |-> isNil, seed |-> seed, avail |-> avail, fail |-> fail, pos |-> 0]
NoReader == Reader(FALSE, 0, 0, "none")
\* crypto/rand.Reader
CryptoReader(seed) == Reader(FALSE, seed, Unlimited, "none")
\* the values of the rand argument; isNil is a nil io.Reader, whose seed is
\* the stream crypto/rand.Reader will give
RandArgs ==
    {Reader(FALSE, s, a, f) : s \in Seeds, a \in Lens, f \in {"EOF", "ErrIO"}}
        \cup {Reader(TRUE, s, 0, "none") : s \in Seeds}

\* bytes the reader can still hand to a Read of a buffer of len bytes
CanRead(r, len) ==
    IF r.avail = Unlimited THEN len
    ELSE IF r.avail - r.pos < len THEN r.avail - r.pos ELSE len

(***************************************************************************)
(* io.ReadFull(rand, privateKey): ReadAtLeast with min = len(buf).         *)
(***************************************************************************)
\* the error ReadAtLeast returns after its loop, from the count and the last
\* Read's error
ReadFullErr(cnt, err, min) ==
    IF cnt >= min THEN NoErr
    ELSE IF cnt > 0 /\ err.kind = "EOF" THEN Err("ErrUnexpectedEOF", 0)
    ELSE err

(***************************************************************************)
(* ecdh25519.go                                                            *)
(***************************************************************************)
\* bug: only a key that is too long is rejected
CheckPrivateKeyTooLongOnly(key) ==
    IF Len(key) > PrivateKeySize THEN Err("ErrBadPrivateKeyLength", Len(key))
    ELSE NoErr

\* if l := len(privateKey); l != PrivateKeySize
CheckPrivateKey(key) ==
    IF Len(key) # PrivateKeySize THEN Err("ErrBadPrivateKeyLength", Len(key))
    ELSE NoErr

\* bug: the message carries the wanted length instead of the actual one
CheckPublicKeyWantedLen(key) ==
    IF Len(key) # PublicKeySize THEN Err("ErrBadPublicKeyLength", PublicKeySize)
    ELSE NoErr

\* bug: the public key's length is not checked
CheckPublicKeyMissing(key) == NoErr

\* if l := len(publicKey); l != PublicKeySize
CheckPublicKey(key) ==
    IF Len(key) # PublicKeySize THEN Err("ErrBadPublicKeyLength", Len(key))
    ELSE NoErr

\* change: PublicKey checks the length as GenerateSharedSecret does
PublicKeyChecked(p) ==
    IF Len(p) # PrivateKeySize
    THEN [val |-> NilSlice, err |-> Err("ErrBadPrivateKeyLength", Len(p))]
    ELSE X25519(p, Basepoint)

\* func (p PrivateKey) PublicKey() (PublicKey, error)
PublicKey(p) == X25519(p, Basepoint)

\* bug: the line privateKey[31] |= 64 is missing
ClampNoSet(key) ==
    LET k1 == [key EXCEPT ![1] = BitAnd(key[1], 248)]
    IN  [k1 EXCEPT ![32] = BitAnd(k1[32], 127)]

\* bug: the bit is set in privateKey[30] instead of privateKey[31]
ClampWrongIndex(key) ==
    LET k1 == [key EXCEPT ![1] = BitAnd(key[1], 248)]
        k2 == [k1 EXCEPT ![32] = BitAnd(k1[32], 127)]
    IN  [k2 EXCEPT ![31] = BitOr(k2[31], 64)]

\* privateKey[0] &= 248; privateKey[31] &= 127; privateKey[31] |= 64
Clamp(key) ==
    LET k1 == [key EXCEPT ![1] = BitAnd(key[1], 248)]
        k2 == [k1 EXCEPT ![32] = BitAnd(k1[32], 127)]
    IN  [k2 EXCEPT ![32] = BitOr(k2[32], 64)]

\* the return values of a call: (PublicKey, PrivateKey, error) of
\* GenerateKeyPair, (PublicKey, error) of PublicKey, ([]byte, error) of
\* GenerateSharedSecret; a value the call does not return is the nil slice
Ret(pub, priv, secret, err) ==
    [pub |-> pub, priv |-> priv, secret |-> secret, err |-> err]
NoRet == Ret(NilSlice, NilSlice, NilSlice, NoErr)

\* bug: return privateKey, publicKey, nil
GenerateKeyPairSwapped(buf, err) ==
    IF err # NoErr
    THEN [ret |-> Ret(NilSlice, NilSlice, NilSlice, err), key |-> buf, mults |-> 0]
    ELSE LET key == [i \in 1..32 |->
                        IF i = 1 THEN BitAnd(buf[i], 248)
                        ELSE IF i = 32 THEN BitOr(BitAnd(buf[i], 127), 64)
                        ELSE buf[i]]
             pk  == X25519(key, Basepoint)
         IN  IF pk.err # NoErr
             THEN [ret |-> Ret(NilSlice, NilSlice, NilSlice, pk.err), key |-> key, mults |-> 1]
             ELSE [ret |-> Ret(key, pk.val, NilSlice, NoErr), key |-> key, mults |-> 1]

\* bug: the error of io.ReadFull is dropped
GenerateKeyPairIgnoreReadErr(buf, err) ==
    LET key == [i \in 1..32 |->
                   IF i = 1 THEN BitAnd(buf[i], 248)
                   ELSE IF i = 32 THEN BitOr(BitAnd(buf[i], 127), 64)
                   ELSE buf[i]]
        pk  == X25519(key, Basepoint)
    IN  IF pk.err # NoErr
        THEN [ret |-> Ret(NilSlice, NilSlice, NilSlice, pk.err), key |-> key, mults |-> 1]
        ELSE [ret |-> Ret(pk.val, key, NilSlice, NoErr), key |-> key, mults |-> 1]

\* bug: publicKey, err := privateKey.PublicKey(); return publicKey, privateKey, err
GenerateKeyPairNoErrCheck(buf, err) ==
    IF err # NoErr
    THEN [ret |-> Ret(NilSlice, NilSlice, NilSlice, err), key |-> buf, mults |-> 0]
    ELSE LET key == [i \in 1..32 |->
                        IF i = 1 THEN BitAnd(buf[i], 248)
                        ELSE IF i = 32 THEN BitOr(BitAnd(buf[i], 127), 64)
                        ELSE buf[i]]
             pk  == X25519(key, Basepoint)
         IN  [ret |-> Ret(pk.val, key, NilSlice, pk.err), key |-> key, mults |-> 1]

\* GenerateKeyPair after io.ReadFull returned err with buf filled: the values
\* returned, the local privateKey at the return, the calls of X25519 made
GenerateKeyPairFrom(buf, err) ==
    IF err # NoErr
    THEN [ret |-> Ret(NilSlice, NilSlice, NilSlice, err), key |-> buf, mults |-> 0]
    ELSE LET key == Clamp(buf)
             pk  == PublicKey(key)
         IN  IF pk.err # NoErr
             THEN [ret |-> Ret(NilSlice, NilSlice, NilSlice, pk.err), key |-> key, mults |-> 1]
             ELSE [ret |-> Ret(pk.val, key, NilSlice, NoErr), key |-> key, mults |-> 1]

\* bug: the arguments of X25519 are swapped
SharedSecretSwapped(priv, pub) == X25519(pub, priv)

\* return curve25519.X25519(privateKey, publicKey)
SharedSecretOf(priv, pub) == X25519(priv, pub)

(***************************************************************************)
(* State: one call in flight (the package keeps no state of its own) and   *)
(* what the two parties of the example hold from their earlier calls.      *)
(***************************************************************************)
VARIABLES
    op,          \* the function being called, "none" between calls
    pc,          \* the place the call has reached
    who,         \* the caller: a party of the example, or "test"
    rand,        \* GenerateKeyPair's rand argument, with the bytes it gave
    privateKey,  \* the privateKey argument or local
    publicKey,   \* the publicKey argument
    n,           \* ReadFull's count of bytes read
    rerr,        \* the error of ReadFull's last Read
    short,       \* whether some Read gave fewer bytes than its buffer held
    ret,         \* the values returned
    mults,       \* calls of curve25519.X25519 made by the call in flight
    keys,        \* per party, the pair a successful GenerateKeyPair returned
    secret       \* per party, what GenerateSharedSecret returned on its own
                 \* private key and the other party's public key

vars == <<op, pc, who, rand, privateKey, publicKey, n, rerr, short, ret, mults, keys, secret>>

Party == {"alice", "bob"}
Other(p) == IF p = "alice" THEN "bob" ELSE "alice"

NoPair == [pub |-> NilSlice, priv |-> NilSlice]
NoSecret == [called |-> FALSE, val |-> NilSlice, err |-> NoErr]

Init ==
    /\ op = "none"
    /\ pc = "idle"
    /\ who = "test"
    /\ rand = NoReader
    /\ privateKey = NilSlice
    /\ publicKey = NilSlice
    /\ n = 0
    /\ rerr = NoErr
    /\ short = FALSE
    /\ ret = NoRet
    /\ mults = 0
    /\ keys = [p \in Party |-> NoPair]
    /\ secret = [p \in Party |-> NoSecret]

\* a call begins: the frame of the call
Enter(f, w, r, priv, pub) ==
    /\ op = "none"
    /\ op' = f
    /\ pc' = "entry"
    /\ who' = w
    /\ rand' = r
    /\ privateKey' = priv
    /\ publicKey' = pub
    /\ n' = 0
    /\ rerr' = NoErr
    /\ short' = FALSE
    /\ ret' = NoRet
    /\ mults' = 0
    /\ UNCHANGED <<keys, secret>>

(***************************************************************************)
(* GenerateKeyPair(rand)                                                   *)
(***************************************************************************)
\* a party without a pair calls GenerateKeyPair
CallGenerateKeyPair ==
    \E w \in Party, r \in RandArgs :
        /\ keys[w] = NoPair
        /\ Enter("GenerateKeyPair", w, r, NilSlice, NilSlice)

\* if rand == nil { rand = cryptorand.Reader }; privateKey := make(PrivateKey, 32)
GenerateKeyPairEntry ==
    /\ op = "GenerateKeyPair" /\ pc = "entry"
    /\ rand' = IF rand.isNil THEN CryptoReader(rand.seed) ELSE rand
    /\ privateKey' = [i \in 1..PrivateKeySize |-> 0]
    /\ pc' = "read"
    /\ UNCHANGED <<op, who, publicKey, n, rerr, short, ret, mults, keys, secret>>

\* one pass of ReadAtLeast's loop: nn, err = r.Read(buf[n:]); n += nn.
\* The reader gives any number of the bytes asked (at least one while it has
\* some), and its error with the last bytes or on the Read after them.
ReadStep ==
    /\ op = "GenerateKeyPair" /\ pc = "read"
    /\ n < PrivateKeySize /\ rerr = NoErr
    /\ LET can == CanRead(rand, PrivateKeySize - n)
       IN  \E nn \in (IF can = 0 THEN {0} ELSE 1..can), failNow \in BOOLEAN :
             /\ failNow => rand.avail # Unlimited /\ rand.pos + nn = rand.avail
             /\ nn = 0 => failNow
             /\ privateKey' = [i \in 1..PrivateKeySize |->
                                 IF i > n /\ i <= n + nn
                                 THEN StreamByte(rand.seed, rand.pos + (i - n))
                                 ELSE privateKey[i]]
             /\ rand' = [rand EXCEPT !.pos = @ + nn]
             /\ n' = n + nn
             /\ rerr' = IF failNow THEN Err(rand.fail, 0) ELSE NoErr
             /\ short' = (short \/ nn < PrivateKeySize - n)
    /\ UNCHANGED <<op, pc, who, publicKey, ret, mults, keys, secret>>

\* ReadFull returns; on its error GenerateKeyPair returns nil, nil, err;
\* otherwise it clamps, derives the public key and returns
GenerateKeyPairFinish ==
    /\ op = "GenerateKeyPair" /\ pc = "read"
    /\ ~(n < PrivateKeySize /\ rerr = NoErr)
    /\ LET r == GenerateKeyPairFrom(privateKey, ReadFullErr(n, rerr, PrivateKeySize))
       IN  /\ ret' = r.ret
           /\ privateKey' = r.key
           /\ mults' = r.mults
    /\ pc' = "done"
    /\ UNCHANGED <<op, who, rand, publicKey, n, rerr, short, keys, secret>>

(***************************************************************************)
(* PrivateKey.PublicKey()                                                  *)
(***************************************************************************)
\* a party derives from the private key it generated; a test from any key
CallPublicKey ==
    \/ \E w \in Party :
         /\ keys[w] # NoPair
         /\ Enter("PublicKey", w, NoReader, keys[w].priv, NilSlice)
    \/ \E p \in TestKeys : Enter("PublicKey", "test", NoReader, p, NilSlice)

PublicKeyRun ==
    /\ op = "PublicKey" /\ pc = "entry"
    /\ LET r == PublicKey(privateKey)
       IN  ret' = Ret(r.val, NilSlice, NilSlice, r.err)
    /\ mults' = mults + 1
    /\ pc' = "done"
    /\ UNCHANGED <<op, who, rand, privateKey, publicKey, n, rerr, short, keys, secret>>

(***************************************************************************)
(* GenerateSharedSecret(privateKey, publicKey)                             *)
(***************************************************************************)
\* the example: a party, once both hold pairs, uses its private key and the
\* other's public key; a test uses any keys
CallGenerateSharedSecret ==
    \/ \E w \in Party :
         /\ keys[w] # NoPair /\ keys[Other(w)] # NoPair
         /\ ~secret[w].called
         /\ Enter("GenerateSharedSecret", w, NoReader, keys[w].priv, keys[Other(w)].pub)
    \/ \E s \in Seeds, lp \in Lens :
         \E pub \in {TestKey(s, l) : l \in Lens} \cup LowOrderPoints :
             Enter("GenerateSharedSecret", "test", NoReader, TestKey(s, lp), pub)

\* if l := len(privateKey); l != PrivateKeySize { return nil, ... }
SharedSecretCheckPrivate ==
    /\ op = "GenerateSharedSecret" /\ pc = "entry"
    /\ LET err == CheckPrivateKey(privateKey)
       IN  IF err # NoErr
           THEN ret' = Ret(NilSlice, NilSlice, NilSlice, err) /\ pc' = "done"
           ELSE ret' = ret /\ pc' = "checkPublic"
    /\ UNCHANGED <<op, who, rand, privateKey, publicKey, n, rerr, short, mults, keys, secret>>

\* if l := len(publicKey); l != PublicKeySize { return nil, ... }
SharedSecretCheckPublic ==
    /\ op = "GenerateSharedSecret" /\ pc = "checkPublic"
    /\ LET err == CheckPublicKey(publicKey)
       IN  IF err # NoErr
           THEN ret' = Ret(NilSlice, NilSlice, NilSlice, err) /\ pc' = "done"
           ELSE ret' = ret /\ pc' = "x25519"
    /\ UNCHANGED <<op, who, rand, privateKey, publicKey, n, rerr, short, mults, keys, secret>>

\* return curve25519.X25519(privateKey, publicKey)
SharedSecretX25519 ==
    /\ op = "GenerateSharedSecret" /\ pc = "x25519"
    /\ LET r == SharedSecretOf(privateKey, publicKey)
       IN  ret' = Ret(NilSlice, NilSlice, r.val, r.err)
    /\ mults' = mults + 1
    /\ pc' = "done"
    /\ UNCHANGED <<op, who, rand, privateKey, publicKey, n, rerr, short, keys, secret>>

(***************************************************************************)
(* The call returns to its caller.  A party keeps the pair of a successful *)
(* GenerateKeyPair and whatever GenerateSharedSecret returned.             *)
(***************************************************************************)
Return ==
    /\ pc = "done"
    /\ keys' = IF who \in Party /\ op = "GenerateKeyPair" /\ ret.err = NoErr
               THEN [keys EXCEPT ![who] = [pub |-> ret.pub, priv |-> ret.priv]]
               ELSE keys
    /\ secret' = IF who \in Party /\ op = "GenerateSharedSecret"
                 THEN [secret EXCEPT ![who] =
                          [called |-> TRUE, val |-> ret.secret, err |-> ret.err]]
                 ELSE secret
    /\ op' = "none"
    /\ pc' = "idle"
    /\ who' = "test"
    /\ rand' = NoReader
    /\ privateKey' = NilSlice
    /\ publicKey' = NilSlice
    /\ n' = 0
    /\ rerr' = NoErr
    /\ short' = FALSE
    /\ ret' = NoRet
    /\ mults' = 0

Next ==
    \/ CallGenerateKeyPair
    \/ GenerateKeyPairEntry
    \/ ReadStep
    \/ GenerateKeyPairFinish
    \/ CallPublicKey
    \/ PublicKeyRun
    \/ CallGenerateSharedSecret
    \/ SharedSecretCheckPrivate
    \/ SharedSecretCheckPublic
    \/ SharedSecretX25519
    \/ Return

Spec == Init /\ [][Next]_vars

(***************************************************************************)
(* Properties.                                                             *)
(***************************************************************************)
Done(f) == op = f /\ pc = "done"

\* byte i of the randomness the call in flight was given (streams are read
\* from their start, in order)
Raw(i) == StreamByte(rand.seed, i)

\* C1: when both parties hold pairs from successful GenerateKeyPair calls,
\* GenerateSharedSecret(privA, pubB) and GenerateSharedSecret(privB, pubA)
\* both succeed and return the same 32 bytes.
C1_Commutative ==
    /\ \A p \in Party :
         secret[p].called => secret[p].err = NoErr /\ Len(secret[p].val) = 32
    /\ (secret["alice"].called /\ secret["bob"].called)
         => secret["alice"].val = secret["bob"].val

C1_Witness ==
    /\ secret["alice"].called /\ secret["bob"].called
    /\ keys["alice"].priv # keys["bob"].priv
    /\ keys["alice"].pub # keys["bob"].pub
    /\ secret["alice"].val = secret["bob"].val
    /\ Len(secret["bob"].val) = 32

\* C2: PublicKey() called on the private key of a pair GenerateKeyPair
\* returned succeeds and returns the public key of that pair.
C2_RoundTrip ==
    (Done("PublicKey") /\ who \in Party)
        => /\ privateKey = keys[who].priv
           /\ ret.err = NoErr
           /\ ret.pub = keys[who].pub

C2_Witness ==
    /\ Done("PublicKey") /\ who \in Party
    /\ Len(keys[who].priv) = 32
    /\ ret.err = NoErr
    /\ ret.pub = keys[who].pub

\* C3: GenerateSharedSecret with a private key whose length is not 32 fails
\* with ErrBadPrivateKeyLength carrying that length, whatever the public key.
C3_BadPrivateKeyLength ==
    (Done("GenerateSharedSecret") /\ Len(privateKey) # 32)
        => /\ ret.err = Err("ErrBadPrivateKeyLength", Len(privateKey))
           /\ ret.secret = NilSlice

C3_Witness ==
    /\ Done("GenerateSharedSecret")
    /\ Len(privateKey) = 31 /\ Len(publicKey) = 33
    /\ ret.err = Err("ErrBadPrivateKeyLength", 31)

\* C4: GenerateSharedSecret with a private key of 32 bytes and a public key
\* whose length is not 32 fails with ErrBadPublicKeyLength carrying the
\* public key's length.
C4_BadPublicKeyLength ==
    (Done("GenerateSharedSecret") /\ Len(privateKey) = 32 /\ Len(publicKey) # 32)
        => /\ ret.err = Err("ErrBadPublicKeyLength", Len(publicKey))
           /\ ret.secret = NilSlice

C4_Witness ==
    /\ Done("GenerateSharedSecret")
    /\ Len(privateKey) = 32 /\ Len(publicKey) = 31
    /\ ret.err = Err("ErrBadPublicKeyLength", 31)

\* C5: every private key a successful GenerateKeyPair returns has the lowest
\* three bits of byte 0 clear, bit 7 of byte 31 clear and bit 6 of byte 31 set.
C5_Clamped ==
    (Done("GenerateKeyPair") /\ ret.err = NoErr)
        => /\ Len(ret.priv) = 32
           /\ ret.priv[1] % 8 = 0
           /\ ret.priv[32] < 128
           /\ (ret.priv[32] \div 64) % 2 = 1

\* a success on randomness in which each of the five bits had to change
C5_Witness ==
    /\ Done("GenerateKeyPair") /\ ret.err = NoErr
    /\ Raw(1) % 8 # 0
    /\ Raw(32) >= 128
    /\ (Raw(32) \div 64) % 2 = 0
    /\ ret.priv[1] % 8 = 0 /\ ret.priv[32] < 128 /\ ret.priv[32] >= 64

\* C6: when the randomness source has fewer than 32 bytes to give,
\* GenerateKeyPair fails with the error of the read (the source's own error,
\* or ErrUnexpectedEOF for an EOF after some bytes) and returns no key.
C6_RandomSourceFailure ==
    (Done("GenerateKeyPair") /\ rand.avail # Unlimited /\ rand.avail < 32)
        => /\ ret.err = (IF rand.avail > 0 /\ rand.fail = "EOF"
                         THEN Err("ErrUnexpectedEOF", 0)
                         ELSE Err(rand.fail, 0))
           /\ ret.pub = NilSlice
           /\ ret.priv = NilSlice
           /\ mults = 0

C6_Witness ==
    /\ Done("GenerateKeyPair")
    /\ rand.avail = 31 /\ rand.pos = 31 /\ short
    /\ ret.err = Err("ErrUnexpectedEOF", 0)
    /\ ret.priv = NilSlice

C8_Original ==
    (Done("PublicKey") /\ Len(privateKey) # 32)
        => ret.err.kind = "ErrBadPrivateKeyLength"

\* C8 amended: PublicKey() on a private key whose length is not 32 makes no
\* check of its own: it calls X25519, and fails with X25519's bad scalar
\* length error carrying the length, returning a nil key.
C8_Amended ==
    (Done("PublicKey") /\ Len(privateKey) # 32)
        => /\ mults = 1
           /\ ret.err = Err("bad scalar length", Len(privateKey))
           /\ ret.pub = NilSlice

C8_Witness ==
    /\ Done("PublicKey")
    /\ Len(privateKey) = 33
    /\ ret.err = Err("bad scalar length", 33)

\* C9: in GenerateSharedSecret X25519 is never invoked when the private key
\* or the public key is not 32 bytes long, and when it is about to be invoked
\* or has been, both lengths are 32.
C9_ChecksFirst ==
    op = "GenerateSharedSecret"
        => /\ (Len(privateKey) # 32 \/ Len(publicKey) # 32) => mults = 0
           /\ (pc = "x25519" \/ mults > 0)
                 => Len(privateKey) = 32 /\ Len(publicKey) = 32

C9_Witness ==
    /\ Done("GenerateSharedSecret")
    /\ Len(privateKey) = 32 /\ Len(publicKey) = 33
    /\ mults = 0
    /\ ret.err # NoErr

\* C10: a successful GenerateKeyPair has drawn exactly 32 bytes, however the
\* source split them across Reads, and returns them in order with byte 0
\* ANDed with 248, byte 31 ANDed with 127 and ORed with 64, bytes 1 to 30
\* unchanged.
C10_DrawnBytes ==
    (Done("GenerateKeyPair") /\ ret.err = NoErr)
        => /\ rand.pos = 32
           /\ n = 32
           /\ ret.priv[1] = Raw(1) - (Raw(1) % 8)
           /\ ret.priv[32] = (Raw(32) % 64) + 64
           /\ \A i \in 2..31 : ret.priv[i] = Raw(i)

\* a success after a short read, from a source that then had more to give
C10_Witness ==
    /\ Done("GenerateKeyPair") /\ ret.err = NoErr
    /\ short
    /\ rand.avail = 33 /\ rand.pos = 32
    /\ \E i \in 2..31 : ret.priv[i] # ret.priv[i + 1] /\ ret.priv[i] # 0

====
